---- MODULE Spec2Model ----
(***************************************************************************)
(* Transactional outbox of personsvc: the Person table ("UserName"), the   *)
(* "Outbox" table, the coordinator PersonService (create_user, update_user,*)
(* delete_user) that writes both inside one database transaction, and the  *)
(* Outbox store's relay primitives (get_pending_messages, clear_event,     *)
(* errored_event).                                                         *)
(*                                                                         *)
(* The database is PostgreSQL at its default isolation (read committed):   *)
(* a transaction's writes are private until COMMIT, a row written by an    *)
(* open transaction is locked against other writers until that transaction *)
(* ends, and NOW() inside a transaction is the transaction's start time.   *)
(* A statement that fails, and a COMMIT or ROLLBACK that fails, leave the  *)
(* transaction's writes uncommitted.                                       *)
(***************************************************************************)
EXTENDS Integers, Sequences, FiniteSets, TLC

VARIABLES
    person,     \* committed "UserName" table: id -> <<>> (no row) or <<row>>
    outbox,     \* committed "Outbox" table: a set of rows, keyed by their id
    lock,       \* row locks of "UserName": id -> the task whose transaction holds it (0: none)
    now,        \* the clock that NOW() and chrono's now() read
    pc,         \* task -> where its coordinator call stands
    call,       \* task -> the call it runs: the operation and its argument
    tx,         \* task -> its open transaction: start time, private writes, the entity
                \* result, and the payload_str of its Outbox::insert
    result,     \* task -> what the call returned
    calls,      \* coordinator calls started so far
    mutations,  \* history: the entity mutations that committed, in commit order
    fetched,    \* relay -> the ids of the rows its last get_pending_messages returned
    acks,       \* clear_event and errored_event calls made so far
    listed,     \* the last list_users call: its offset, its limit and what it returned
    handler     \* the create_user handler: where it stands, the record it built, the
                \* coordinator calls it has made and the response it gave

vars == <<person, outbox, lock, now, pc, call, tx, result, calls, mutations, fetched, acks,
          listed, handler>>
relay == <<fetched, acks, listed, handler>>
coordinator == <<person, lock, pc, call, tx, result, calls, mutations>>

----------------------------------------------------------------------------
(* Bounds of the model. *)

MaxCalls == 2
MaxTime == 1

(* Two coordinator calls can be in flight at once, on the same person or on
   two; two relay instances can poll. *)
Tasks == {1, 2}
Ids == {1, 2}
Relays == {1, 2}

----------------------------------------------------------------------------
(* Option<T>: None is the empty sequence, Some(x) the sequence of x. *)

None == <<>>
Some(x) == <<x>>

(* The request bodies a caller sends (CreateUserRequest). *)
Requests ==
    { [first_name |-> "Ada", middle_name |-> None,
       last_name |-> "Lovelace", suffix |-> None],
      [first_name |-> "Ada", middle_name |-> Some("Augusta"),
       last_name |-> "King", suffix |-> Some("Countess")] }

(* NewPersonRecord as the create handler builds it: the id, the names and the
   handler's own clock reading. *)
NewPersonRecord(id, req, t) ==
    [id |-> id, first_name |-> req.first_name, middle_name |-> req.middle_name,
     last_name |-> req.last_name, suffix |-> req.suffix, created_date_time |-> t]

(* PersonRecord as the update handler builds it: both timestamps are the
   handler's clock reading. *)
PersonRecord(id, req, t) ==
    [id |-> id, first_name |-> req.first_name, middle_name |-> req.middle_name,
     last_name |-> req.last_name, suffix |-> req.suffix, created_date_time |-> t,
     updated_date_time |-> Some(t)]

----------------------------------------------------------------------------
(* serde_json::to_string. A struct serializes to an object of its fields in
   declaration order, a Uuid to a JSON string. *)

SerializePerson(r) ==
    [kind |-> "object",
     members |-> << <<"id", r.id>>, <<"first_name", r.first_name>>,
                    <<"middle_name", r.middle_name>>, <<"last_name", r.last_name>>,
                    <<"suffix", r.suffix>>,
                    <<"created_date_time", r.created_date_time>>,
                    <<"updated_date_time", r.updated_date_time>> >>]

SerializeUuid(id) ==
    [kind |-> "string", members |-> << <<"uuid", id>> >>]

----------------------------------------------------------------------------
(* The SQL statements of PersonDb, on a table value. *)

(* INSERT INTO "UserName" (Id, FirstName, MiddleName, LastName, Suffix) ...
   RETURNING *: the created time is the column's NOW(), the updated time is
   NULL; the record's own created_date_time is not a parameter. *)
CreateStmtRow(user, t) ==
    [id |-> user.id, first_name |-> user.first_name, middle_name |-> user.middle_name,
     last_name |-> user.last_name, suffix |-> user.suffix, created_date_time |-> t,
     updated_date_time |-> None]

(* UPDATE "UserName" SET FirstName, MiddleName, LastName, Suffix,
   UpdatedDateTime = NOW() WHERE Id = $5 RETURNING *. *)
UpdateStmtRow(old, user, t) ==
    [old EXCEPT !.first_name = user.first_name, !.middle_name = user.middle_name,
                !.last_name = user.last_name, !.suffix = user.suffix,
                !.updated_date_time = Some(t)]

----------------------------------------------------------------------------
(* The Outbox table. *)

UsedUuids == {e.id : e \in outbox} \cup UNION {{e.id : e \in tx[p].events} : p \in Tasks}

(* Uuid::new_v4(): an id no row has. *)
NewUuid == CHOOSE n \in 1..(Cardinality(UsedUuids) + 1) : n \notin UsedUuids

(* INSERT INTO "Outbox" (Id, Topic, EventName, Payload, "Status", CreatedDateTime)
   VALUES ($1, $2, $3, $4, 'Unpublished', NOW()); PublishedDateTime is NULL and
   ErrorCount 0 by the columns' defaults. *)
InsertStmtRow(id, topic, event_name, payload_str, t) ==
    [id |-> id, topic |-> topic, event_name |-> event_name, payload |-> payload_str,
     status |-> "Unpublished", created_date_time |-> t,
     published_date_time |-> None, error_count |-> 0]

----------------------------------------------------------------------------
(* Task state. *)

NoCall == [op |-> "none"]
NoTx == [open |-> FALSE, start |-> 0, write |-> None, events |-> {}, ret |-> None,
         payload_str |-> None]
NoResult == [kind |-> "none"]
NoListed == [offset |-> 0, limit |-> 0, result |-> NoResult]
NoRequest == [pc |-> "idle", user |-> None, attempts |-> 0, first |-> NoResult,
              response |-> None]

Ok(v) == [kind |-> "Ok", value |-> v]
Err(stage) == [kind |-> "Err", error |-> stage]

ReleaseLocks(p) == [i \in Ids |-> IF lock[i] = p THEN 0 ELSE lock[i]]

Init ==
    /\ person = [i \in Ids |-> None]
    /\ outbox = {}
    /\ lock = [i \in Ids |-> 0]
    /\ now = 0
    /\ pc = [p \in Tasks |-> "idle"]
    /\ call = [p \in Tasks |-> NoCall]
    /\ tx = [p \in Tasks |-> NoTx]
    /\ result = [p \in Tasks |-> NoResult]
    /\ calls = 0
    /\ mutations = <<>>
    /\ fetched = [r \in Relays |-> {}]
    /\ acks = 0
    /\ listed = NoListed
    /\ handler = NoRequest

(* The clock advances. *)
Tick ==
    /\ now < MaxTime
    /\ now' = now + 1
    /\ UNCHANGED <<person, outbox, lock, pc, call, tx, result, calls, mutations, relay>>

(* A handler calls the coordinator: create_user with a NewPersonRecord,
   update_user with a PersonRecord, delete_user with an id. *)
Call(p) ==
    /\ pc[p] = "idle"
    /\ calls < MaxCalls
    /\ \E id \in Ids :
          \/ \E req \in Requests :
                call' = [call EXCEPT ![p] =
                            [op |-> "create", id |-> id, user |-> NewPersonRecord(id, req, now)]]
          \/ \E req \in Requests :
                call' = [call EXCEPT ![p] =
                            [op |-> "update", id |-> id, user |-> PersonRecord(id, req, now)]]
          \/ call' = [call EXCEPT ![p] = [op |-> "delete", id |-> id]]
    /\ pc' = [pc EXCEPT ![p] = "pool_get"]
    /\ calls' = calls + 1
    /\ UNCHANGED <<person, outbox, lock, now, tx, result, mutations, relay>>

(* db_pool.get(): on failure the call returns the error at once. *)
PoolGet(p) ==
    /\ pc[p] = "pool_get"
    /\ \E ok \in BOOLEAN :
          IF ok
          THEN /\ pc' = [pc EXCEPT ![p] = "start"]
               /\ UNCHANGED result
          ELSE /\ pc' = [pc EXCEPT ![p] = "done"]
               /\ result' = [result EXCEPT ![p] = Err("pool")]
    /\ UNCHANGED <<person, outbox, lock, now, call, tx, calls, mutations, relay>>

(* A begin whose error arm goes to the rollback arm of the steps below it. *)
TxStartFailureRollsBack(p) ==
    /\ pc[p] = "start"
    /\ \E ok \in BOOLEAN :
          IF ok
          THEN /\ pc' = [pc EXCEPT ![p] = "entity"]
               /\ tx' = [tx EXCEPT ![p] = [NoTx EXCEPT !.open = TRUE, !.start = now]]
          ELSE /\ pc' = [pc EXCEPT ![p] = "rollback_entity"]
               /\ UNCHANGED tx
    /\ UNCHANGED <<person, outbox, lock, now, call, result, calls, mutations, relay>>

(* client.build_transaction().start(): BEGIN; on failure the call returns the
   error at once. *)
TxStart(p) ==
    /\ pc[p] = "start"
    /\ \E ok \in BOOLEAN :
          IF ok
          THEN /\ pc' = [pc EXCEPT ![p] = "entity"]
               /\ tx' = [tx EXCEPT ![p] = [NoTx EXCEPT !.open = TRUE, !.start = now]]
               /\ UNCHANGED result
          ELSE /\ pc' = [pc EXCEPT ![p] = "done"]
               /\ result' = [result EXCEPT ![p] = Err("begin")]
               /\ UNCHANGED tx
    /\ UNCHANGED <<person, outbox, lock, now, call, calls, mutations, relay>>

(* An error arm that returns the entity error without rolling back. *)
EntityFailedReturns(p) ==
    /\ pc' = [pc EXCEPT ![p] = "done"]
    /\ result' = [result EXCEPT ![p] = Err("entity")]
    /\ UNCHANGED <<person, outbox, lock, now, call, tx, calls, mutations, relay>>

(* The entity statement failed: the coordinator goes on to roll back. *)
EntityFailed(p) ==
    /\ pc' = [pc EXCEPT ![p] = "rollback_entity"]
    /\ UNCHANGED <<person, outbox, lock, now, call, tx, result, calls, mutations, relay>>

(* The key of "UserName": Id is unique, so the table refuses an INSERT of an
   id that has a committed row. *)
DuplicateKey(id) == person[id] # None

(* A create whose statement replaces the row on a conflict
   (INSERT ... ON CONFLICT (Id) DO UPDATE). *)
PersonDbCreateOverwrites(p) ==
    /\ pc[p] = "entity"
    /\ call[p].op = "create"
    /\ lock[call[p].id] = 0
    /\ \E fault \in BOOLEAN :
          IF fault
          THEN EntityFailed(p)
          ELSE LET row == CreateStmtRow(call[p].user, tx[p].start) IN
               /\ tx' = [tx EXCEPT ![p].write = Some([kind |-> "put", id |-> row.id, row |-> row]),
                                   ![p].ret = Some(row)]
               /\ lock' = [lock EXCEPT ![row.id] = p]
               /\ pc' = [pc EXCEPT ![p] = "outbox"]
               /\ UNCHANGED <<person, outbox, now, call, result, calls, mutations, relay>>

(* A create that does not wait for another transaction's uncommitted row of
   the same key: it sees no committed row and writes its own. *)
PersonDbCreateNoWait(p) ==
    /\ pc[p] = "entity"
    /\ call[p].op = "create"
    /\ \E fault \in BOOLEAN :
          IF fault \/ DuplicateKey(call[p].id)
          THEN EntityFailed(p)
          ELSE LET row == CreateStmtRow(call[p].user, tx[p].start) IN
               /\ tx' = [tx EXCEPT ![p].write = Some([kind |-> "put", id |-> row.id, row |-> row]),
                                   ![p].ret = Some(row)]
               /\ lock' = [lock EXCEPT ![row.id] = p]
               /\ pc' = [pc EXCEPT ![p] = "outbox"]
               /\ UNCHANGED <<person, outbox, now, call, result, calls, mutations, relay>>

(* person_db.create(&tx, user): the INSERT waits while another open
   transaction holds the key, fails on a key that has a committed row, and
   otherwise writes the row privately and returns it. *)
PersonDbCreate(p) ==
    /\ pc[p] = "entity"
    /\ call[p].op = "create"
    /\ lock[call[p].id] = 0
    /\ \E fault \in BOOLEAN :
          IF fault \/ DuplicateKey(call[p].id)
          THEN EntityFailed(p)
          ELSE LET row == CreateStmtRow(call[p].user, tx[p].start) IN
               /\ tx' = [tx EXCEPT ![p].write = Some([kind |-> "put", id |-> row.id, row |-> row]),
                                   ![p].ret = Some(row)]
               /\ lock' = [lock EXCEPT ![row.id] = p]
               /\ pc' = [pc EXCEPT ![p] = "outbox"]
               /\ UNCHANGED <<person, outbox, now, call, result, calls, mutations, relay>>

(* An update that writes the row when there is none to change. *)
PersonDbUpdateUpserts(p) ==
    /\ pc[p] = "entity"
    /\ call[p].op = "update"
    /\ lock[call[p].id] = 0
    /\ \E fault \in BOOLEAN :
          IF fault
          THEN EntityFailed(p)
          ELSE LET old == IF person[call[p].id] = None
                          THEN CreateStmtRow(call[p].user, tx[p].start)
                          ELSE person[call[p].id][1]
                   row == UpdateStmtRow(old, call[p].user, tx[p].start) IN
               /\ tx' = [tx EXCEPT ![p].write = Some([kind |-> "put", id |-> row.id, row |-> row]),
                                   ![p].ret = Some(row)]
               /\ lock' = [lock EXCEPT ![row.id] = p]
               /\ pc' = [pc EXCEPT ![p] = "outbox"]
               /\ UNCHANGED <<person, outbox, now, call, result, calls, mutations, relay>>

(* person_db.update(&tx, user): the UPDATE waits for the row's lock; query_one
   fails when no row comes back. *)
PersonDbUpdate(p) ==
    /\ pc[p] = "entity"
    /\ call[p].op = "update"
    /\ person[call[p].id] # None => lock[call[p].id] = 0
    /\ \E fault \in BOOLEAN :
          IF fault \/ person[call[p].id] = None
          THEN EntityFailed(p)
          ELSE LET row == UpdateStmtRow(person[call[p].id][1], call[p].user, tx[p].start) IN
               /\ tx' = [tx EXCEPT ![p].write = Some([kind |-> "put", id |-> row.id, row |-> row]),
                                   ![p].ret = Some(row)]
               /\ lock' = [lock EXCEPT ![row.id] = p]
               /\ pc' = [pc EXCEPT ![p] = "outbox"]
               /\ UNCHANGED <<person, outbox, now, call, result, calls, mutations, relay>>

(* A delete_user without the `if (deleted)` test: the event is inserted
   whether or not a row was removed. *)
PersonDbDeleteAlwaysEvent(p) ==
    /\ pc[p] = "entity"
    /\ call[p].op = "delete"
    /\ person[call[p].id] # None => lock[call[p].id] = 0
    /\ \E fault \in BOOLEAN :
          IF fault
          THEN EntityFailed(p)
          ELSE LET id == call[p].id
                   deleted == person[id] # None IN
               /\ tx' = [tx EXCEPT ![p].write =
                                      IF deleted THEN Some([kind |-> "del", id |-> id,
                                                            row |-> person[id][1]])
                                      ELSE None,
                                   ![p].ret = Some(deleted)]
               /\ lock' = IF deleted THEN [lock EXCEPT ![id] = p] ELSE lock
               /\ pc' = [pc EXCEPT ![p] = "outbox"]
               /\ UNCHANGED <<person, outbox, now, call, result, calls, mutations, relay>>

(* person_db.delete(&tx, id): Ok(count > 0). A delete that removed nothing
   skips the outbox insert. *)
PersonDbDelete(p) ==
    /\ pc[p] = "entity"
    /\ call[p].op = "delete"
    /\ person[call[p].id] # None => lock[call[p].id] = 0
    /\ \E fault \in BOOLEAN :
          IF fault
          THEN EntityFailed(p)
          ELSE LET id == call[p].id
                   deleted == person[id] # None IN
               /\ tx' = [tx EXCEPT ![p].write =
                                      IF deleted THEN Some([kind |-> "del", id |-> id,
                                                            row |-> person[id][1]])
                                      ELSE None,
                                   ![p].ret = Some(deleted)]
               /\ lock' = IF deleted THEN [lock EXCEPT ![id] = p] ELSE lock
               /\ pc' = [pc EXCEPT ![p] = IF deleted THEN "outbox" ELSE "commit"]
               /\ UNCHANGED <<person, outbox, now, call, result, calls, mutations, relay>>

(* An event name copied from create_user into the other two coordinators. *)
EventNameCopied(op) == "user_added"

(* The event name and the payload each coordinator passes to Outbox::insert. *)
EventName(op) ==
    CASE op = "create" -> "user_added"
      [] op = "update" -> "user_updated"
      [] op = "delete" -> "user_deleted"

(* A payload taken from the call's argument instead of the row the entity
   statement returned. *)
EventPayloadOfArgument(p) ==
    IF call[p].op = "delete" THEN SerializeUuid(call[p].id)
    ELSE IF call[p].op = "update" THEN SerializePerson(call[p].user)
    ELSE SerializePerson(tx[p].ret[1])

EventPayload(p) ==
    IF call[p].op = "delete"
    THEN SerializeUuid(call[p].id)
    ELSE SerializePerson(tx[p].ret[1])

(* An insert run on a plain client: the row is committed at once, whatever
   becomes of the transaction. *)
OutboxInsertOutsideTx(p) ==
    /\ pc[p] = "outbox"
    /\ \E ok \in BOOLEAN :
          IF ok
          THEN /\ outbox' = outbox \cup
                            {InsertStmtRow(NewUuid, "user_events", EventName(call[p].op),
                                           Some(EventPayload(p)), now)}
               /\ pc' = [pc EXCEPT ![p] = "commit"]
          ELSE /\ pc' = [pc EXCEPT ![p] = "rollback_outbox"]
               /\ UNCHANGED outbox
    /\ UNCHANGED <<person, lock, now, call, tx, result, calls, mutations, relay>>

(* The "Outbox" table's Payload column takes no NULL: of the table's columns
   only the published timestamp and the error message are nullable, and
   OutboxMessage reads Payload into a String, not an Option. *)
PayloadNotNull == TRUE

(* Whether the table takes the row insert_stmt is run with. *)
InsertStmtAccepts(row) == PayloadNotNull => row.payload # None

(* An insert whose row the table takes even with a NULL payload. *)
OutboxInsertKeepsNull(p) ==
    /\ pc[p] = "outbox"
    /\ \E serialized \in BOOLEAN, ok \in BOOLEAN :
          LET payload_str == IF serialized THEN Some(EventPayload(p)) ELSE None
              row == InsertStmtRow(NewUuid, "user_events", EventName(call[p].op),
                                   payload_str, tx[p].start) IN
          IF ok
          THEN /\ tx' = [tx EXCEPT ![p].events = @ \cup {row},
                                   ![p].payload_str = payload_str]
               /\ pc' = [pc EXCEPT ![p] = "commit"]
          ELSE /\ tx' = [tx EXCEPT ![p].payload_str = payload_str]
               /\ pc' = [pc EXCEPT ![p] = "rollback_outbox"]
    /\ UNCHANGED <<person, outbox, lock, now, call, result, calls, mutations, relay>>

(* An insert whose error is returned at once (`.await?`), with no rollback
   in between. *)
OutboxInsertFailureReturns(p) ==
    /\ pc[p] = "outbox"
    /\ \E serialized \in BOOLEAN, ok \in BOOLEAN :
          LET payload_str == IF serialized THEN Some(EventPayload(p)) ELSE None
              row == InsertStmtRow(NewUuid, "user_events", EventName(call[p].op),
                                   payload_str, tx[p].start) IN
          IF ok /\ InsertStmtAccepts(row)
          THEN /\ tx' = [tx EXCEPT ![p].events = @ \cup {row},
                                   ![p].payload_str = payload_str]
               /\ pc' = [pc EXCEPT ![p] = "commit"]
               /\ UNCHANGED result
          ELSE /\ tx' = [tx EXCEPT ![p].payload_str = payload_str]
               /\ pc' = [pc EXCEPT ![p] = "done"]
               /\ result' = [result EXCEPT ![p] = Err("outbox")]
    /\ UNCHANGED <<person, outbox, lock, now, call, calls, mutations, relay>>

(* outbox.insert(&tx, "user_events", event_name, payload):
   serde_json::to_string(payload).ok() is Some(text), or None when the
   serialization fails; insert_stmt is then run inside the caller's
   transaction with that Option as its Payload parameter, and insert returns
   the statement's result. *)
OutboxInsert(p) ==
    /\ pc[p] = "outbox"
    /\ \E serialized \in BOOLEAN, ok \in BOOLEAN :
          LET payload_str == IF serialized THEN Some(EventPayload(p)) ELSE None
              row == InsertStmtRow(NewUuid, "user_events", EventName(call[p].op),
                                   payload_str, tx[p].start) IN
          IF ok /\ InsertStmtAccepts(row)
          THEN /\ tx' = [tx EXCEPT ![p].events = @ \cup {row},
                                   ![p].payload_str = payload_str]
               /\ pc' = [pc EXCEPT ![p] = "commit"]
          ELSE /\ tx' = [tx EXCEPT ![p].payload_str = payload_str]
               /\ pc' = [pc EXCEPT ![p] = "rollback_outbox"]
    /\ UNCHANGED <<person, outbox, lock, now, call, result, calls, mutations, relay>>

(* A rollback that leaves the transaction's entity write in the table. *)
TxRollbackKeepsWrite(p) ==
    /\ pc[p] \in {"rollback_entity", "rollback_outbox"}
    /\ \E ok \in BOOLEAN :
          result' = [result EXCEPT ![p] =
                        IF ~ok THEN Err("rollback")
                        ELSE IF pc[p] = "rollback_entity" THEN Err("entity")
                        ELSE Err("outbox")]
    /\ person' = IF tx[p].write = None THEN person
                 ELSE [person EXCEPT ![tx[p].write[1].id] =
                          IF tx[p].write[1].kind = "put" THEN Some(tx[p].write[1].row) ELSE None]
    /\ tx' = [tx EXCEPT ![p] = NoTx]
    /\ lock' = ReleaseLocks(p)
    /\ pc' = [pc EXCEPT ![p] = "done"]
    /\ UNCHANGED <<outbox, now, call, calls, mutations, relay>>

(* A rollback whose own failure is dropped (`let _ = tx.rollback().await;`):
   the call returns the error that led to the rollback either way. *)
TxRollbackSwallows(p) ==
    /\ pc[p] \in {"rollback_entity", "rollback_outbox"}
    /\ \E ok \in BOOLEAN :
          result' = [result EXCEPT ![p] =
                        IF pc[p] = "rollback_entity" THEN Err("entity") ELSE Err("outbox")]
    /\ tx' = [tx EXCEPT ![p] = NoTx]
    /\ lock' = ReleaseLocks(p)
    /\ pc' = [pc EXCEPT ![p] = "done"]
    /\ UNCHANGED <<person, outbox, now, call, calls, mutations, relay>>

(* tx.rollback(): the private writes are dropped. The call returns the error
   that led here, or the rollback's own error when the rollback fails. *)
TxRollback(p) ==
    /\ pc[p] \in {"rollback_entity", "rollback_outbox"}
    /\ \E ok \in BOOLEAN :
          result' = [result EXCEPT ![p] =
                        IF ~ok THEN Err("rollback")
                        ELSE IF pc[p] = "rollback_entity" THEN Err("entity")
                        ELSE Err("outbox")]
    /\ tx' = [tx EXCEPT ![p] = NoTx]
    /\ lock' = ReleaseLocks(p)
    /\ pc' = [pc EXCEPT ![p] = "done"]
    /\ UNCHANGED <<person, outbox, now, call, calls, mutations, relay>>

(* The committed "UserName" table after a transaction's write. *)
ApplyWrite(table, w) ==
    IF w = None THEN table
    ELSE [table EXCEPT ![w[1].id] = IF w[1].kind = "put" THEN Some(w[1].row) ELSE None]

(* The history entry of a committed write. *)
Mutation(op, w) ==
    [op |-> op, id |-> w.id, post |-> IF w.kind = "put" THEN Some(w.row) ELSE None]

(* A commit that reports failure after the writes have become visible. *)
TxCommitAppliesOnError(p) ==
    /\ pc[p] = "commit"
    /\ \E ok \in BOOLEAN :
          result' = [result EXCEPT ![p] = IF ok THEN Ok(tx[p].ret[1]) ELSE Err("commit")]
    /\ person' = ApplyWrite(person, tx[p].write)
    /\ outbox' = outbox \cup tx[p].events
    /\ mutations' = IF tx[p].write = None THEN mutations
                    ELSE Append(mutations, Mutation(call[p].op, tx[p].write[1]))
    /\ tx' = [tx EXCEPT ![p] = NoTx]
    /\ lock' = ReleaseLocks(p)
    /\ pc' = [pc EXCEPT ![p] = "done"]
    /\ UNCHANGED <<now, call, calls, relay>>

(* tx.commit(): the private writes of both tables become the committed state
   together, and the call returns the entity result; on failure nothing is
   committed and the call returns the error. *)
TxCommit(p) ==
    /\ pc[p] = "commit"
    /\ \E ok \in BOOLEAN :
          IF ok
          THEN /\ person' = ApplyWrite(person, tx[p].write)
               /\ outbox' = outbox \cup tx[p].events
               /\ mutations' = IF tx[p].write = None THEN mutations
                               ELSE Append(mutations, Mutation(call[p].op, tx[p].write[1]))
               /\ result' = [result EXCEPT ![p] = Ok(tx[p].ret[1])]
          ELSE /\ result' = [result EXCEPT ![p] = Err("commit")]
               /\ UNCHANGED <<person, outbox, mutations, relay>>
    /\ tx' = [tx EXCEPT ![p] = NoTx]
    /\ lock' = ReleaseLocks(p)
    /\ pc' = [pc EXCEPT ![p] = "done"]
    /\ UNCHANGED <<now, call, calls, relay>>

(* The caller has its answer; the task is free for the next request. *)
Return(p) ==
    /\ pc[p] = "done"
    /\ pc' = [pc EXCEPT ![p] = "idle"]
    /\ call' = [call EXCEPT ![p] = NoCall]
    /\ result' = [result EXCEPT ![p] = NoResult]
    /\ UNCHANGED <<person, outbox, lock, now, tx, calls, mutations, relay>>

----------------------------------------------------------------------------
(* PersonDb::list and list_users: one SELECT on a plain client, which reads
   the committed table. *)

Min(a, b) == IF a < b THEN a ELSE b

(* The rows of a "UserName" table. *)
Rows(table) == {table[i][1] : i \in {j \in DOMAIN table : table[j] # None}}

(* ORDER BY CreatedDateTime DESC: every order the sort can give. Rows of
   equal creation time come in whatever order the database picks. *)
OrderByCreatedDesc(rows) ==
    LET n == Cardinality(rows) IN
    {s \in [1..n -> rows] :
        /\ \A i, j \in 1..n : i # j => s[i] # s[j]
        /\ \A i, j \in 1..n : i < j => s[i].created_date_time >= s[j].created_date_time}

(* The statement with its two parameters bound the wrong way round. *)
ListStmtSwapped(table, offset, limit) ==
    IF offset < 0 \/ limit < 0
    THEN {Err("list")}
    ELSE {Ok(SubSeq(s, limit + 1, Min(limit + offset, Len(s)))) :
             s \in OrderByCreatedDesc(Rows(table))}

(* SELECT * FROM "UserName" ORDER BY CreatedDateTime DESC OFFSET $1 LIMIT $2:
   every result the statement can give. A negative OFFSET or LIMIT is an
   error of the statement. *)
ListStmt(table, offset, limit) ==
    IF offset < 0 \/ limit < 0
    THEN {Err("list")}
    ELSE {Ok(SubSeq(s, offset + 1, Min(offset + limit, Len(s)))) :
             s \in OrderByCreatedDesc(Rows(table))}

(* list_users(db_pool, offset, limit): db_pool.get(), then person_db.list;
   either one's error is returned. *)
ListUsers(offset, limit) ==
    /\ \E ok \in BOOLEAN :
          IF ok
          THEN \E r \in ListStmt(person, offset, limit) :
                  listed' = [offset |-> offset, limit |-> limit, result |-> r]
          ELSE listed' = [offset |-> offset, limit |-> limit, result |-> Err("pool")]
    /\ UNCHANGED <<outbox, now, fetched, acks, handler, coordinator>>

----------------------------------------------------------------------------
(* The Outbox store's relay primitives. Each runs one statement on a plain
   client, outside any transaction: it reads and writes the committed table. *)

PendingLimit == 50
ErrorCeiling == 10
MaxInt32 == 2147483647

(* A filter that is off by one at the ceiling: ErrorCount <= 10. *)
PendingInclusive(table) ==
    {e \in table : e.published_date_time = None /\ e.error_count <= ErrorCeiling}

(* A filter on the status column: only rows still marked 'Unpublished'. *)
PendingByStatus(table) ==
    {e \in table : e.status = "Unpublished"}

(* WHERE PublishedDateTime IS NULL AND ErrorCount < 10 *)
Pending(table) ==
    {e \in table : e.published_date_time = None /\ e.error_count < ErrorCeiling}

RECURSIVE Choose(_, _)
(* The subsets of S with k elements. *)
Choose(S, k) ==
    IF k = 0 THEN {{}}
    ELSE IF Cardinality(S) < k THEN {}
    ELSE LET x == CHOOSE y \in S : TRUE IN
         {T \cup {x} : T \in Choose(S \ {x}, k - 1)} \cup Choose(S \ {x}, k)

(* The statement without its LIMIT. *)
GetPendingStmtNoLimit(table) ==
    {Pending(table)}

(* SELECT * FROM "Outbox" WHERE ... LIMIT 50: every result the statement can
   give. There is no ORDER BY, so with more than 50 matching rows which ones
   are left out is the database's choice. *)
GetPendingStmt(table) ==
    LET match == Pending(table)
        over == IF Cardinality(match) > PendingLimit
                THEN Cardinality(match) - PendingLimit ELSE 0 IN
    {match \ X : X \in Choose(match, over)}

(* A clear_event whose statement stamps the wrong timestamp column. *)
ClearEventStmtStampsCreated(table, id, t) ==
    {IF e.id = id
     THEN [e EXCEPT !.status = "Published", !.error_count = 0,
                    !.created_date_time = t, !.published_date_time = Some(t)]
     ELSE e : e \in table}

(* A clear_event that resets the status and the count and leaves the
   published timestamp as it finds it. *)
ClearEventStmtResetsCount(table, id, t) ==
    {IF e.id = id
     THEN [e EXCEPT !.status = "Published", !.error_count = 0]
     ELSE e : e \in table}

(* UPDATE "Outbox" SET "Status" = 'Published', ErrorCount = 0,
   PublishedDateTime = NOW() WHERE Id = $1 *)
ClearEventStmt(table, id, t) ==
    {IF e.id = id
     THEN [e EXCEPT !.status = "Published", !.error_count = 0,
                    !.published_date_time = Some(t)]
     ELSE e : e \in table}

(* An errored_event that stops counting at the ceiling. *)
ErroredEventStmtCapped(table, id) ==
    {IF e.id = id /\ e.error_count < ErrorCeiling
     THEN [e EXCEPT !.status = "Error", !.error_count = @ + 1]
     ELSE e : e \in table}

(* UPDATE "Outbox" SET "Status" = 'Error', ErrorCount = ErrorCount + 1
   WHERE Id = $1; the statement fails, and changes nothing, when the sum
   leaves the column's 32 bits. *)
ErroredEventStmt(table, id) ==
    IF \E e \in table : e.id = id /\ e.error_count = MaxInt32
    THEN table
    ELSE {IF e.id = id
          THEN [e EXCEPT !.status = "Error", !.error_count = @ + 1]
          ELSE e : e \in table}

(* A fetch that also sees the rows open transactions have written. *)
GetPendingMessagesDirty(r) ==
    /\ \E rows \in GetPendingStmt(outbox \cup UNION {tx[p].events : p \in Tasks}) :
          fetched' = [fetched EXCEPT ![r] = {e.id : e \in rows}]
    /\ UNCHANGED <<outbox, now, acks, listed, handler, coordinator>>

(* A fetch that leases what it returns: it passes over the rows another
   relay was given and has not reported on. *)
GetPendingMessagesLeased(r) ==
    /\ \E rows \in GetPendingStmt({e \in outbox :
                                      e.id \notin UNION {fetched[q] : q \in Relays \ {r}}}) :
          fetched' = [fetched EXCEPT ![r] = {e.id : e \in rows}]
    /\ UNCHANGED <<outbox, now, acks, listed, handler, coordinator>>

(* get_pending_messages(client), called by relay r. *)
GetPendingMessages(r) ==
    /\ \E rows \in GetPendingStmt(outbox) :
          fetched' = [fetched EXCEPT ![r] = {e.id : e \in rows}]
    /\ UNCHANGED <<outbox, now, acks, listed, handler, coordinator>>

MaxAcks == 3
MaxAckIds == 2

(* The ids a caller passes to clear_event and errored_event; 0 is an id that
   no row has. *)
EventArgs == 0..MaxAckIds

(* clear_event(client, id) *)
ClearEvent(id) ==
    /\ acks < MaxAcks
    /\ acks' = acks + 1
    /\ outbox' = ClearEventStmt(outbox, id, now)
    /\ UNCHANGED <<now, fetched, listed, handler, coordinator>>

(* errored_event(client, id) *)
ErroredEvent(id) ==
    /\ acks < MaxAcks
    /\ acks' = acks + 1
    /\ outbox' = ErroredEventStmt(outbox, id)
    /\ UNCHANGED <<now, fetched, listed, handler, coordinator>>

----------------------------------------------------------------------------
(* Tables the service can have built by the time a relay runs: person 1 was
   created and deleted in turn n times in all, each committed with its event,
   and the first event has failed to publish c times. *)

MaxInitErrors == 8

(* A table or two of a few rows, and the sizes around the fetch limit. *)
TableSizes == {1, 2, PendingLimit - 1, PendingLimit, PendingLimit + 1}
InitErrors == {0, MaxInitErrors}

FirstRequest == CHOOSE req \in Requests : req.middle_name = None
FirstPerson == CreateStmtRow(NewPersonRecord(1, FirstRequest, 0), 0)

HistoryEvent(i) ==
    IF i % 2 = 1
    THEN InsertStmtRow(i, "user_events", "user_added", Some(SerializePerson(FirstPerson)), 0)
    ELSE InsertStmtRow(i, "user_events", "user_deleted", Some(SerializeUuid(1)), 0)

HistoryMutation(i) ==
    IF i % 2 = 1
    THEN [op |-> "create", id |-> 1, post |-> Some(FirstPerson)]
    ELSE [op |-> "delete", id |-> 1, post |-> None]

RECURSIVE Errored(_, _, _)
(* The table after c errored_event calls for id. *)
Errored(table, id, c) ==
    IF c = 0 THEN table ELSE Errored(ErroredEventStmt(table, id), id, c - 1)

InitOutbox ==
    /\ \E n \in TableSizes, c \in InitErrors :
          /\ outbox = Errored({HistoryEvent(i) : i \in 1..n}, 1, c)
          /\ person = [i \in Ids |-> IF i = 1 /\ n % 2 = 1 THEN Some(FirstPerson) ELSE None]
          /\ mutations = [i \in 1..n |-> HistoryMutation(i)]
    /\ lock = [i \in Ids |-> 0]
    /\ now = 0
    /\ pc = [p \in Tasks |-> "idle"]
    /\ call = [p \in Tasks |-> NoCall]
    /\ tx = [p \in Tasks |-> NoTx]
    /\ result = [p \in Tasks |-> NoResult]
    /\ calls = 0
    /\ fetched = [r \in Relays |-> {}]
    /\ acks = 0
    /\ listed = NoListed
    /\ handler = NoRequest

(* One relay polls; clear_event and errored_event are called with any id. *)
NextOutbox ==
    \/ Tick
    \/ GetPendingMessages(1)
    \/ \E id \in EventArgs : ClearEvent(id)
    \/ \E id \in EventArgs : ErroredEvent(id)

SpecOutbox == InitOutbox /\ [][NextOutbox]_vars

Next ==
    \/ Tick
    \/ \E p \in Tasks : Call(p)
    \/ \E p \in Tasks : PoolGet(p)
    \/ \E p \in Tasks : TxStart(p)
    \/ \E p \in Tasks : PersonDbCreate(p)
    \/ \E p \in Tasks : PersonDbUpdate(p)
    \/ \E p \in Tasks : PersonDbDelete(p)
    \/ \E p \in Tasks : OutboxInsert(p)
    \/ \E p \in Tasks : TxRollback(p)
    \/ \E p \in Tasks : TxCommit(p)
    \/ \E p \in Tasks : Return(p)

Spec == Init /\ [][Next]_vars

----------------------------------------------------------------------------
(* Two calls side by side, one per task, on a "UserName" table that is empty
   or holds the row an earlier create_user of id 1 committed. *)

InitPair ==
    /\ \E present \in BOOLEAN :
          LET row == CreateStmtRow(NewPersonRecord(1, FirstRequest, 0), 0) IN
          /\ person = [i \in Ids |-> IF present /\ i = 1 THEN Some(row) ELSE None]
          /\ outbox = IF present
                      THEN {InsertStmtRow(1, "user_events", "user_added",
                                          Some(SerializePerson(row)), 0)}
                      ELSE {}
          /\ mutations = IF present
                         THEN <<[op |-> "create", id |-> 1, post |-> Some(row)]>>
                         ELSE <<>>
    /\ lock = [i \in Ids |-> 0]
    /\ now = 0
    /\ pc = [p \in Tasks |-> "idle"]
    /\ call = [p \in Tasks |-> NoCall]
    /\ tx = [p \in Tasks |-> NoTx]
    /\ result = [p \in Tasks |-> NoResult]
    /\ calls = 0
    /\ fetched = [r \in Relays |-> {}]
    /\ acks = 0
    /\ listed = NoListed
    /\ handler = NoRequest

NextPair ==
    \/ Tick
    \/ \E p \in Tasks : Call(p)
    \/ \E p \in Tasks : PoolGet(p)
    \/ \E p \in Tasks : TxStart(p)
    \/ \E p \in Tasks : PersonDbCreate(p)
    \/ \E p \in Tasks : PersonDbUpdate(p)
    \/ \E p \in Tasks : PersonDbDelete(p)
    \/ \E p \in Tasks : OutboxInsert(p)
    \/ \E p \in Tasks : TxRollback(p)
    \/ \E p \in Tasks : TxCommit(p)

SpecPair == InitPair /\ [][NextPair]_vars

----------------------------------------------------------------------------
(* The create_user handler (POST): it builds a NewPersonRecord with a new
   Uuid and its clock's reading, and runs on task 1. *)

(* The body of the response. *)
UserResponse(created_user) ==
    [id |-> created_user.id, first_name |-> created_user.first_name,
     middle_name |-> created_user.middle_name, last_name |-> created_user.last_name,
     suffix |-> created_user.suffix, created_date_time |-> created_user.created_date_time,
     updated_date_time |-> created_user.updated_date_time]

(* The request arrives: the record is built and service.create_user is
   called with it. *)
CreateUserHandlerBegin ==
    /\ handler.pc = "idle"
    /\ pc[1] = "idle"
    /\ \E id \in Ids, req \in Requests :
          /\ person[id] = None
          /\ call' = [call EXCEPT ![1] =
                         [op |-> "create", id |-> id, user |-> NewPersonRecord(id, req, now)]]
          /\ handler' = [handler EXCEPT !.pc = "first",
                                        !.user = Some(NewPersonRecord(id, req, now)),
                                        !.attempts = 1]
    /\ pc' = [pc EXCEPT ![1] = "pool_get"]
    /\ calls' = calls + 1
    /\ UNCHANGED <<person, outbox, lock, now, tx, result, mutations, fetched, acks, listed>>

(* The first match: the Ok arm is empty and the Err arm builds a response
   that is dropped, so either way the handler goes on to the second match,
   which calls service.create_user with the same record. *)
CreateUserHandlerFirst ==
    /\ handler.pc = "first"
    /\ pc[1] = "done"
    /\ handler' = [handler EXCEPT !.pc = "second", !.first = result[1], !.attempts = 2]
    /\ pc' = [pc EXCEPT ![1] = "pool_get"]
    /\ result' = [result EXCEPT ![1] = NoResult]
    /\ calls' = calls + 1
    /\ UNCHANGED <<person, outbox, lock, now, call, tx, mutations, fetched, acks, listed>>

(* The second match: Ok is answered Created with the row, Err with
   InternalServerError. *)
CreateUserHandlerSecond ==
    /\ handler.pc = "second"
    /\ pc[1] = "done"
    /\ handler' = [handler EXCEPT
                      !.pc = "responded",
                      !.response =
                          IF result[1].kind = "Ok"
                          THEN Some([status |-> "Created", body |-> Some(UserResponse(result[1].value))])
                          ELSE Some([status |-> "InternalServerError", body |-> None])]
    /\ pc' = [pc EXCEPT ![1] = "idle"]
    /\ call' = [call EXCEPT ![1] = NoCall]
    /\ result' = [result EXCEPT ![1] = NoResult]
    /\ UNCHANGED <<person, outbox, lock, now, tx, calls, mutations, fetched, acks, listed>>

NextHandler ==
    \/ Tick
    \/ CreateUserHandlerBegin
    \/ PoolGet(1)
    \/ TxStart(1)
    \/ PersonDbCreate(1)
    \/ OutboxInsert(1)
    \/ TxRollback(1)
    \/ TxCommit(1)
    \/ CreateUserHandlerFirst
    \/ CreateUserHandlerSecond

SpecHandler == Init /\ [][NextHandler]_vars

----------------------------------------------------------------------------
(* The service and a relay side by side on the same tables: the coordinator
   serves one call at a time, and clear_event and errored_event are called
   between any two of its steps. *)

MaxServiceAcks == 2

NextService ==
    \/ Tick
    \/ Call(1)
    \/ PoolGet(1)
    \/ TxStart(1)
    \/ PersonDbCreate(1)
    \/ PersonDbUpdate(1)
    \/ PersonDbDelete(1)
    \/ OutboxInsert(1)
    \/ TxRollback(1)
    \/ TxCommit(1)
    \/ Return(1)
    \/ \E id \in EventArgs : acks < MaxServiceAcks /\ ClearEvent(id)
    \/ \E id \in EventArgs : acks < MaxServiceAcks /\ ErroredEvent(id)

SpecService == Init /\ [][NextService]_vars

----------------------------------------------------------------------------
(* The service with a relay polling: get_pending_messages is called between
   any two steps of the coordinator, which serves one call at a time. *)

NextFetch ==
    \/ Tick
    \/ Call(1)
    \/ PoolGet(1)
    \/ TxStart(1)
    \/ PersonDbCreate(1)
    \/ PersonDbUpdate(1)
    \/ PersonDbDelete(1)
    \/ OutboxInsert(1)
    \/ TxRollback(1)
    \/ TxCommit(1)
    \/ Return(1)
    \/ GetPendingMessages(1)

SpecFetch == Init /\ [][NextFetch]_vars

----------------------------------------------------------------------------
(* Tables for list_users: persons 1..n have been created, each at a time of
   its own choosing, and nothing is written while the table is read. *)

MaxListRows == 3

ListIds == 1..MaxListRows
ListTimes == 0..(MaxListRows - 1)
PageSizes == (-1)..MaxListRows

ListedPerson(i, t) == CreateStmtRow(NewPersonRecord(i, FirstRequest, t), t)

InitList ==
    /\ \E n \in 0..MaxListRows, t \in [ListIds -> ListTimes] :
          /\ person = [i \in ListIds |-> IF i <= n THEN Some(ListedPerson(i, t[i])) ELSE None]
          /\ outbox = {InsertStmtRow(i, "user_events", "user_added",
                                     Some(SerializePerson(ListedPerson(i, t[i]))), t[i]) :
                          i \in 1..n}
          /\ mutations = [i \in 1..n |->
                             [op |-> "create", id |-> i, post |-> Some(ListedPerson(i, t[i]))]]
    /\ lock = [i \in ListIds |-> 0]
    /\ now = MaxListRows - 1
    /\ pc = [p \in Tasks |-> "idle"]
    /\ call = [p \in Tasks |-> NoCall]
    /\ tx = [p \in Tasks |-> NoTx]
    /\ result = [p \in Tasks |-> NoResult]
    /\ calls = 0
    /\ fetched = [r \in Relays |-> {}]
    /\ acks = 0
    /\ listed = NoListed
    /\ handler = NoRequest

(* A reader pages through the table N rows at a time, or asks for two pages
   at once. *)
NextList ==
    \E n \in PageSizes :
        \/ ListUsers(0, n)
        \/ ListUsers(n, n)
        \/ ListUsers(0, 2 * n)

SpecList == InitList /\ [][NextList]_vars

----------------------------------------------------------------------------
(* The relay the Outbox store is written for: it polls get_pending_messages,
   tries to publish each row it was given and reports each attempt with
   exactly one of clear_event and errored_event. Relay instances take turns
   in any order; each keeps polling and keeps working through its batch. *)

RelayTableSizes == {1, 2}

InitRelay ==
    /\ \E n \in RelayTableSizes, c \in InitErrors :
          /\ outbox = Errored({HistoryEvent(i) : i \in 1..n}, 1, c)
          /\ person = [i \in Ids |-> IF i = 1 /\ n % 2 = 1 THEN Some(FirstPerson) ELSE None]
          /\ mutations = [i \in 1..n |-> HistoryMutation(i)]
    /\ lock = [i \in Ids |-> 0]
    /\ now = 0
    /\ pc = [p \in Tasks |-> "idle"]
    /\ call = [p \in Tasks |-> NoCall]
    /\ tx = [p \in Tasks |-> NoTx]
    /\ result = [p \in Tasks |-> NoResult]
    /\ calls = 0
    /\ fetched = [r \in Relays |-> {}]
    /\ acks = 0
    /\ listed = NoListed
    /\ handler = NoRequest

(* Relay r, its last batch worked off, fetches the next. *)
RelayPoll(r) ==
    /\ fetched[r] = {}
    /\ GetPendingMessages(r)

(* Relay r tries to publish one row of its batch and reports the outcome. *)
RelayAttempt(r) ==
    /\ \E id \in fetched[r] :
          /\ \E published \in BOOLEAN :
                outbox' = IF published THEN ClearEventStmt(outbox, id, now)
                          ELSE ErroredEventStmt(outbox, id)
          /\ fetched' = [fetched EXCEPT ![r] = @ \ {id}]
    /\ UNCHANGED <<now, acks, listed, handler, coordinator>>

NextRelay ==
    \/ Tick
    \/ \E r \in Relays : RelayPoll(r)
    \/ \E r \in Relays : RelayAttempt(r)

SpecRelay ==
    /\ InitRelay
    /\ [][NextRelay]_vars
    /\ \A r \in Relays : WF_vars(RelayPoll(r)) /\ WF_vars(RelayAttempt(r))

----------------------------------------------------------------------------
(* Properties of the coordinator, checked under Spec. *)

(* A step taken by task p. Steps interleave: no two tasks step at once. *)
Steps(p) == pc'[p] # pc[p]

CommittedUnchanged == person' = person /\ outbox' = outbox

(* C1. Atomicity under a failing outbox insert, for create_user, update_user
   and delete_user alike: no step of a call up to and including its entity
   write, the failed Outbox::insert and the rollback changes the committed
   Person table or adds a committed Outbox row; once the insert has failed
   the call goes on to roll back and to return an error, and its private
   writes are gone when it returns. *)
C1_OutboxFailureLeavesNoTrace ==
    [][\A p \in Tasks :
          /\ (Steps(p) /\ pc[p] \in {"pool_get", "start", "entity", "outbox", "rollback_outbox"})
                => CommittedUnchanged
          /\ (Steps(p) /\ pc[p] = "rollback_outbox")
                => /\ pc'[p] = "done"
                   /\ result'[p].kind = "Err"
                   /\ tx'[p] = NoTx
       ]_vars

(* An update of an existing row whose outbox insert failed has returned the
   error, and the row is still as it was created. *)
C1_Witness ==
    \E p \in Tasks :
        /\ pc[p] = "done"
        /\ call[p].op = "update"
        /\ result[p] = Err("outbox")
        /\ person[call[p].id] # None
        /\ person[call[p].id][1].updated_date_time = None
        /\ Cardinality(outbox) = 1

(* The event a committed mutation must have: its name and its payload. *)
EventOf(m) ==
    [event_name |-> EventName(m.op),
     payload |-> Some(IF m.post = None THEN SerializeUuid(m.id)
                      ELSE SerializePerson(m.post[1]))]

EventKey(e) == [event_name |-> e.event_name, payload |-> e.payload]

(* The Person row the committed mutations leave for an id. *)
LastPost(id) ==
    LET at == {i \in DOMAIN mutations : mutations[i].id = id} IN
    IF at = {} THEN None
    ELSE mutations[CHOOSE i \in at : \A j \in at : j <= i].post

(* C2. In every reachable state the committed Outbox rows correspond one to
   one to the committed state-changing mutations: as many rows as mutations,
   and for every event name and payload as many rows carrying it as
   mutations calling for it; the committed mutations are the ones the Person
   table shows. *)
C2_OutboxMatchesCommittedMutations ==
    /\ Cardinality(outbox) = Len(mutations)
    /\ \A e \in outbox :
          Cardinality({f \in outbox : EventKey(f) = EventKey(e)})
             = Cardinality({i \in DOMAIN mutations : EventOf(mutations[i]) = EventKey(e)})
    /\ \A i \in DOMAIN mutations :
          \E e \in outbox : EventKey(e) = EventOf(mutations[i])
    /\ \A id \in Ids : person[id] = LastPost(id)

(* A mutation has committed with its event, and another call has failed at
   its commit or at its rollback. *)
C2_Witness ==
    /\ Len(mutations) = 1
    /\ Cardinality(outbox) = 1
    /\ \E p \in Tasks : pc[p] = "done" /\ result[p].kind = "Err"
                        /\ result[p].error \in {"commit", "rollback"}

(* C3. A create_user or update_user call that returns Ok, and a delete_user
   call that returns Ok(true), commits exactly one Outbox row with it; for
   create and update the payload is the serialized Person row the mutation
   persisted, which is also the value returned, and for delete it is the
   serialized id, the row being gone. *)
C3_OneEventWithPostState ==
    [][\A p \in Tasks :
          (/\ Steps(p)
           /\ pc'[p] = "done"
           /\ result'[p].kind = "Ok"
           /\ (call[p].op = "delete" => result'[p].value))
          => /\ Cardinality(outbox' \ outbox) = 1
             /\ outbox \subseteq outbox'
             /\ \A e \in outbox' \ outbox :
                   IF call[p].op = "delete"
                   THEN /\ e.payload = Some(SerializeUuid(call[p].id))
                        /\ person'[call[p].id] = None
                   ELSE /\ person'[call[p].id] # None
                        /\ e.payload = Some(SerializePerson(person'[call[p].id][1]))
                        /\ result'[p].value = person'[call[p].id][1]
       ]_vars

(* An update that came later than the create has returned Ok: the row's
   update time is set and two events are committed. *)
C3_Witness ==
    \E p \in Tasks :
        /\ pc[p] = "done"
        /\ call[p].op = "update"
        /\ result[p].kind = "Ok"
        /\ result[p].value.updated_date_time = Some(1)
        /\ result[p].value.created_date_time = 0
        /\ Cardinality(outbox) = 2

(* C4. delete_user on an id that has no Person row: the delete statement
   reports false, no Outbox row is written, the call goes on to commit and
   not to roll back, and when the commit succeeds the call returns Ok(false)
   with both committed tables unchanged. *)
C4_DeleteOfNothing ==
    [][\A p \in Tasks :
          /\ (/\ Steps(p)
              /\ pc[p] = "entity"
              /\ call[p].op = "delete"
              /\ person[call[p].id] = None
              /\ pc'[p] # "rollback_entity")
                => /\ pc'[p] = "commit"
                   /\ tx'[p].ret = Some(FALSE)
                   /\ tx'[p].events = {}
                   /\ tx'[p].write = None
          /\ (/\ Steps(p)
              /\ pc[p] = "commit"
              /\ call[p].op = "delete"
              /\ tx[p].ret = Some(FALSE))
                => /\ pc'[p] = "done"
                   /\ CommittedUnchanged
                   /\ result'[p].kind = "Ok" => ~result'[p].value
       ]_vars

(* A delete of an id nobody has created has returned Ok(false). *)
C4_Witness ==
    \E p \in Tasks :
        /\ pc[p] = "done"
        /\ call[p].op = "delete"
        /\ result[p].kind = "Ok"
        /\ ~result[p].value
        /\ person[call[p].id] = None
        /\ outbox = {}

----------------------------------------------------------------------------
(* Properties of the Outbox store, checked under SpecOutbox. *)

(* What the relay contract calls a pending event. *)
Eligible(e) == e.published_date_time = None /\ e.error_count < 10

EligibleRows == {e \in outbox : Eligible(e)}

(* The row that has id in a table. *)
RowOf(table, id) == CHOOSE e \in table : e.id = id

(* C5, as the spec words it: every get_pending_messages result holds every
   event that has no published_at and an error_count of 9. *)
C5_Original ==
    \A e \in outbox :
        (e.published_date_time = None /\ e.error_count = 9)
            => \A rows \in GetPendingStmt(outbox) : e \in rows

(* C5, amended. An event with no published_at and error_count 9 is still
   within reach of get_pending_messages: some result holds it, and every
   result does while at most 50 events are pending. One more errored_event
   call makes its error_count 10, and no result of get_pending_messages
   holds an event whose error_count is 10 or more. *)
C5_RetryCeiling ==
    /\ \A e \in outbox :
          (e.published_date_time = None /\ e.error_count = 9)
             => /\ \E rows \in GetPendingStmt(outbox) : e \in rows
                /\ Cardinality(EligibleRows) <= 50
                      => \A rows \in GetPendingStmt(outbox) : e \in rows
                /\ LET after == ErroredEventStmt(outbox, e.id) IN
                      /\ RowOf(after, e.id).error_count = 10
                      /\ \A rows \in GetPendingStmt(after) : RowOf(after, e.id) \notin rows
    /\ \A e \in outbox :
          e.error_count >= 10 => \A rows \in GetPendingStmt(outbox) : e \notin rows

(* The first event has failed ten times and a fetch made since has returned
   the other event alone. *)
C5_Witness ==
    /\ Cardinality(outbox) = 2
    /\ RowOf(outbox, 1).error_count = 10
    /\ RowOf(outbox, 1).published_date_time = None
    /\ Eligible(RowOf(outbox, 2))
    /\ fetched[1] = {2}

(* C6, as the spec words it: a clear_event on an event that is already
   published leaves its status Published and its published_at as the first
   call set it. *)
C6_Original ==
    [][\A e \in outbox : \A f \in outbox' :
          (f.id = e.id /\ e.status = "Published" /\ f.status = "Published")
             => f.published_date_time = e.published_date_time
      ]_vars

(* C7, as the spec words it: an event that clear_event has marked Published
   keeps that status through every later clear_event and errored_event. *)
C7_Original ==
    [][\A e \in outbox : \A f \in outbox' :
          (f.id = e.id /\ e.status = "Published") => f.status = "Published"
      ]_vars

(* C8. Every result get_pending_messages can give holds at most 50 rows, all
   of them rows of the committed table with no published_at and an
   error_count below 10, whatever their status; when at most 50 rows pass
   that filter the result is all of them. *)
C8_PendingFetch ==
    \A rows \in GetPendingStmt(outbox) :
        /\ Cardinality(rows) <= 50
        /\ rows \subseteq EligibleRows
        /\ Cardinality(EligibleRows) <= 50 => rows = EligibleRows
        /\ Cardinality(EligibleRows) > 50 => Cardinality(rows) = 50

(* With 51 rows pending, one of them with status Error, the relay has been
   given 50 of them, the errored one included. *)
C8_Witness ==
    /\ Cardinality(EligibleRows) = 51
    /\ Cardinality(fetched[1]) = 50
    /\ \E e \in EligibleRows : e.status = "Error" /\ e.id \in fetched[1]

(* C9. errored_event on an existing event gives it status Error and an
   error_count greater by exactly 1, whatever the count was, 10 and more
   included; every other column of the row, published_at among them, and
   every other row stay as they are. *)
C9_ErroredEvent ==
    \A e \in outbox :
        LET after == ErroredEventStmt(outbox, e.id) IN
        /\ after = (outbox \ {e}) \cup
                      {[e EXCEPT !.status = "Error", !.error_count = e.error_count + 1]}
        /\ RowOf(after, e.id).published_date_time = e.published_date_time

(* An event has been marked errored past the ceiling. *)
C9_Witness ==
    \E e \in outbox :
        e.error_count = 11 /\ e.status = "Error" /\ e.published_date_time = None

----------------------------------------------------------------------------
(* Properties of the Outbox store under a relay that keeps working, checked
   under SpecRelay. *)

(* C10. A committed event is never lost: no Outbox row is ever deleted; for
   as long as an event has neither been marked published nor reached
   error_count 10 it stays within reach of get_pending_messages, which can
   return it and, with at most 50 events pending, does; and under a relay
   that keeps polling and reporting every event reaches one of those two
   outcomes. *)
C10_NeverLost ==
    /\ [][\A e \in outbox :
             /\ \E f \in outbox' : f.id = e.id
             /\ \A f \in outbox' :
                   (f.id = e.id /\ f.published_date_time = None /\ f.error_count < 10)
                      => /\ \E rows \in GetPendingStmt(outbox') : f \in rows
                         /\ Cardinality({g \in outbox' : Eligible(g)}) <= 50
                               => \A rows \in GetPendingStmt(outbox') : f \in rows
         ]_vars
    /\ \A i \in RelayTableSizes :
          (\E e \in outbox : e.id = i)
             ~> (\E e \in outbox :
                    e.id = i /\ (e.published_date_time # None \/ e.error_count >= 10))

(* One event has been published and the other given up after ten errors. *)
C10_Witness ==
    /\ Cardinality(outbox) = 2
    /\ \E e \in outbox : e.status = "Published" /\ e.published_date_time # None
    /\ \E e \in outbox : e.error_count = 10 /\ e.published_date_time = None
    /\ \A r \in Relays : fetched[r] = {}

----------------------------------------------------------------------------
(* Properties of the coordinator's error paths, checked under Spec. *)

(* C11. A call returns Ok only in the step in which its commit succeeds, the
   step that makes the transaction's entity write and events the committed
   state; a call whose commit fails returns the commit's error, and that step
   leaves both committed tables as they were and drops the transaction's
   private writes. *)
C11_OkOnlyAfterCommit ==
    [][\A p \in Tasks :
          /\ (Steps(p) /\ pc'[p] = "done" /\ result'[p].kind = "Ok")
                => /\ pc[p] = "commit"
                   /\ person' = ApplyWrite(person, tx[p].write)
                   /\ outbox' = outbox \cup tx[p].events
          /\ (Steps(p) /\ pc[p] = "commit" /\ result'[p].kind # "Ok")
                => /\ result'[p] = Err("commit")
                   /\ CommittedUnchanged
                   /\ tx'[p] = NoTx
       ]_vars

(* A create whose commit failed has returned the error; there is no Person
   row and no event. *)
C11_Witness ==
    \E p \in Tasks :
        /\ pc[p] = "done"
        /\ call[p].op = "create"
        /\ result[p] = Err("commit")
        /\ person[call[p].id] = None
        /\ outbox = {}
        /\ tx[p] = NoTx

(* C12. An Outbox::insert whose payload does not serialize returns an error:
   the call goes on to roll back with no event written, the rollback leaves
   both committed tables as they were, drops the entity write and returns an
   error; no Outbox row, committed or private to a transaction, is without
   its payload. *)
C12_SerializationFailureRollsBack ==
    [][\A p \in Tasks :
          /\ (Steps(p) /\ pc[p] = "outbox" /\ tx'[p].payload_str = None)
                => /\ pc'[p] = "rollback_outbox"
                   /\ tx'[p].events = {}
                   /\ CommittedUnchanged
          /\ (Steps(p) /\ pc[p] = "rollback_outbox")
                => /\ CommittedUnchanged
                   /\ tx'[p] = NoTx
                   /\ result'[p].kind = "Err"
          /\ \A e \in outbox' \cup tx'[p].events : e.payload # None
       ]_vars

(* An update of an existing row has made its entity write, the payload has
   failed to serialize and the call stands before its rollback. *)
C12_Witness ==
    \E p \in Tasks :
        /\ pc[p] = "rollback_outbox"
        /\ call[p].op = "update"
        /\ tx[p].write # None
        /\ tx[p].payload_str = None
        /\ tx[p].events = {}
        /\ person[call[p].id] # None

(* C13. update_user on an id that has no Person row: the update statement
   returns no row, so the call goes on to roll back with no entity write and
   no event; the rollback leaves both committed tables as they were and the
   call returns an error. *)
C13_UpdateOfNothing ==
    [][\A p \in Tasks :
          /\ (/\ Steps(p)
              /\ pc[p] = "entity"
              /\ call[p].op = "update"
              /\ person[call[p].id] = None)
                => /\ pc'[p] = "rollback_entity"
                   /\ tx'[p].write = None
                   /\ tx'[p].events = {}
                   /\ CommittedUnchanged
          /\ (/\ Steps(p)
              /\ pc[p] = "rollback_entity"
              /\ call[p].op = "update")
                => /\ pc'[p] = "done"
                   /\ result'[p].kind = "Err"
                   /\ tx'[p] = NoTx
                   /\ CommittedUnchanged
       ]_vars

(* An update of an id nobody has created has returned the statement's
   error; there is no Person row and no event. *)
C13_Witness ==
    \E p \in Tasks :
        /\ pc[p] = "done"
        /\ call[p].op = "update"
        /\ result[p] = Err("entity")
        /\ \A id \in Ids : person[id] = None
        /\ outbox = {}
        /\ mutations = <<>>

(* The rows the committed history leaves for an id: one for each committed
   create, less one for each committed delete. *)
LiveRows(id) ==
    Cardinality({i \in DOMAIN mutations : mutations[i].id = id /\ mutations[i].op = "create"})
    - Cardinality({i \in DOMAIN mutations : mutations[i].id = id /\ mutations[i].op = "delete"})

(* C14. create_user with an id that has a committed Person row: the insert
   is refused, so the call goes on to roll back with no entity write and no
   event, and returns an error with both committed tables, the existing row
   among them, as they were. At all times the committed creates and deletes
   leave at most one row for an id, the row the table shows. *)
C14_DuplicateCreate ==
    /\ [][\A p \in Tasks :
             /\ (/\ Steps(p)
                 /\ pc[p] = "entity"
                 /\ call[p].op = "create"
                 /\ person[call[p].id] # None)
                   => /\ pc'[p] = "rollback_entity"
                      /\ tx'[p].write = None
                      /\ tx'[p].events = {}
                      /\ CommittedUnchanged
             /\ (/\ Steps(p)
                 /\ pc[p] = "rollback_entity"
                 /\ call[p].op = "create")
                   => /\ pc'[p] = "done"
                      /\ result'[p].kind = "Err"
                      /\ tx'[p] = NoTx
                      /\ CommittedUnchanged
         ]_vars
    /\ [](\A id \in Ids :
             /\ LiveRows(id) \in {0, 1}
             /\ LiveRows(id) = 1 <=> person[id] # None)

(* A second create of an id has returned the statement's error; the row and
   the one event of the first create are all there is. *)
C14_Witness ==
    \E p \in Tasks :
        /\ pc[p] = "done"
        /\ call[p].op = "create"
        /\ result[p] = Err("entity")
        /\ person[call[p].id] # None
        /\ call[p].user.last_name # person[call[p].id][1].last_name
        /\ Len(mutations) = 1
        /\ Cardinality(outbox) = 1

(* C18. A call whose entity statement fails (it leaves the call without an
   entity result) goes on to roll back, with nothing written; from there the
   call makes no outbox insert and no commit: its next step is the rollback,
   which ends the call with both committed tables as they were and returns
   the entity error, or the rollback's own error when the rollback fails. *)
C18_EntityFailureRollsBack ==
    [][\A p \in Tasks :
          /\ (Steps(p) /\ pc[p] = "entity" /\ tx'[p].ret = None)
                => /\ pc'[p] = "rollback_entity"
                   /\ tx'[p] = tx[p]
                   /\ result'[p] = NoResult
                   /\ CommittedUnchanged
          /\ (Steps(p) /\ pc[p] = "rollback_entity")
                => /\ tx[p].events = {}
                   /\ tx[p].payload_str = None
                   /\ pc'[p] = "done"
                   /\ result'[p] \in {Err("entity"), Err("rollback")}
                   /\ tx'[p] = NoTx
                   /\ CommittedUnchanged
          /\ (Steps(p) /\ pc'[p] \in {"outbox", "commit"} /\ pc[p] = "entity")
                => tx'[p].ret # None
       ]_vars

(* A delete of an existing row has failed in its statement and returned the
   entity error; the row is still there, with the one event of its create. *)
C18_Witness ==
    \E p \in Tasks :
        /\ pc[p] = "done"
        /\ call[p].op = "delete"
        /\ result[p] = Err("entity")
        /\ person[call[p].id] # None
        /\ Cardinality(outbox) = 1
        /\ Len(mutations) = 1

(* C19. An entity statement that fails and an outbox insert that fails each
   send the call to a rollback, and never straight to its return. The
   rollback ends the call with an error, never with Ok: the error that led
   to it or the rollback's own; and the rollback's own failure does surface,
   for at every rollback the return of the rollback error is among the
   steps the call can take. *)
C19_RollbackFailureSurfaces ==
    /\ [][\A p \in Tasks :
             /\ (Steps(p) /\ pc[p] = "entity" /\ tx'[p].ret = None)
                   => pc'[p] = "rollback_entity"
             /\ (Steps(p) /\ pc[p] = "outbox" /\ tx'[p].events = {})
                   => pc'[p] = "rollback_outbox"
             /\ (Steps(p) /\ pc[p] \in {"entity", "outbox"}) => pc'[p] # "done"
             /\ (Steps(p) /\ pc[p] = "rollback_entity")
                   => /\ pc'[p] = "done"
                      /\ result'[p] \in {Err("entity"), Err("rollback")}
             /\ (Steps(p) /\ pc[p] = "rollback_outbox")
                   => /\ pc'[p] = "done"
                      /\ result'[p] \in {Err("outbox"), Err("rollback")}
         ]_vars
    /\ [](\A p \in Tasks :
             pc[p] \in {"rollback_entity", "rollback_outbox"}
                => ENABLED (TxRollback(p) /\ result'[p] = Err("rollback")))

(* An update of an existing row has returned the error of a failed
   rollback: the row is as it was created and no second event exists. *)
C19_Witness ==
    \E p \in Tasks :
        /\ pc[p] = "done"
        /\ call[p].op = "update"
        /\ result[p] = Err("rollback")
        /\ tx[p] = NoTx
        /\ person[call[p].id] # None
        /\ person[call[p].id][1].updated_date_time = None
        /\ Cardinality(outbox) = 1

(* C20. db_pool.get() either succeeds, and the call goes on to begin its
   transaction, or fails, and the call returns that error at once; the
   begin either succeeds, and the call goes on to its entity statement, or
   fails, and the call returns that error at once. A call that has returned
   at either point has no transaction and holds no lock, the step has left
   both committed tables as they were, and the only step left to the call is
   handing the error to its caller: no entity write, outbox insert, rollback
   or commit, and no second attempt. *)
C20_PoolOrBeginFailure ==
    [][\A p \in Tasks :
          /\ (Steps(p) /\ pc[p] = "pool_get" /\ pc'[p] # "start")
                => /\ pc'[p] = "done"
                   /\ result'[p] = Err("pool")
          /\ (Steps(p) /\ pc[p] = "start" /\ pc'[p] # "entity")
                => /\ pc'[p] = "done"
                   /\ result'[p] = Err("begin")
          /\ (Steps(p) /\ pc[p] \in {"pool_get", "start"} /\ pc'[p] = "done")
                => /\ CommittedUnchanged
                   /\ mutations' = mutations
                   /\ tx'[p] = NoTx
                   /\ \A i \in Ids : lock'[i] # p
          /\ (Steps(p) /\ pc[p] = "done")
                => /\ pc'[p] = "idle"
                   /\ CommittedUnchanged
                   /\ tx'[p] = tx[p]
       ]_vars

(* One call has returned the pool's error and another the error of its
   begin; nothing has been written. *)
C20_Witness ==
    /\ \E p \in Tasks : pc[p] = "done" /\ result[p] = Err("pool") /\ tx[p] = NoTx
    /\ \E p \in Tasks : pc[p] = "done" /\ result[p] = Err("begin") /\ tx[p] = NoTx
    /\ \A id \in Ids : person[id] = None
    /\ outbox = {}
    /\ mutations = <<>>

(* C24. No call returns with its transaction open: a call whose transaction
   has begun returns only out of tx.commit() or tx.rollback(), whether that
   succeeds or fails, on the success path and on the entity, outbox, rollback
   and commit failure paths alike; a task that has returned or is idle has no
   open transaction and holds no lock. *)
C24_NoDanglingTransaction ==
    [][\A p \in Tasks :
          /\ (tx[p].open /\ pc[p] # "done" /\ pc'[p] = "done")
                => /\ pc[p] \in {"commit", "rollback_entity", "rollback_outbox"}
                   /\ ~tx'[p].open
          /\ (tx[p].open /\ pc[p] \in {"entity", "outbox"})
                => pc'[p] \in {pc[p], "outbox", "commit", "rollback_entity", "rollback_outbox"}
          /\ pc'[p] \in {"done", "idle"}
                => tx'[p] = NoTx /\ (\A i \in Ids : lock'[i] # p)
       ]_vars

(* A delete that removed the row and wrote its event has returned the error
   of a failed commit: the transaction is closed and the lock released. *)
C24_Witness ==
    \E p \in Tasks :
        /\ pc[p] = "done"
        /\ call[p].op = "delete"
        /\ result[p] = Err("commit")
        /\ person[call[p].id] # None
        /\ tx[p] = NoTx
        /\ \A i \in Ids : lock[i] = 0

(* The event a call writes is named by its operation: the one row an
   Outbox::insert adds to the transaction carries the name given for the
   call's operation, and so does every row a commit adds to the table. *)
NamedBy(created, updated, deleted) ==
    \A p \in Tasks :
        LET name == CASE call[p].op = "create" -> created
                      [] call[p].op = "update" -> updated
                      [] call[p].op = "delete" -> deleted
                      [] OTHER -> "" IN
        /\ (Steps(p) /\ pc[p] = "outbox" /\ pc'[p] = "commit")
              => /\ Cardinality(tx'[p].events \ tx[p].events) = 1
                 /\ \A e \in tx'[p].events \ tx[p].events : e.event_name = name
        /\ (Steps(p) /\ pc[p] = "commit")
              => \A e \in outbox' \ outbox : e.event_name = name

(* C16, as the spec words it: create_user writes `created`, update_user
   `updated` and delete_user `deleted`. *)
C16_Original ==
    [][NamedBy("created", "updated", "deleted")]_vars

(* C16, amended. The event name is determined by the operation and taken
   from the fixed vocabulary user_added / user_updated / user_deleted:
   create_user writes `user_added`, update_user `user_updated` and
   delete_user `user_deleted`; no committed row has another name. *)
C16_EventNameByOperation ==
    [][/\ NamedBy("user_added", "user_updated", "user_deleted")
       /\ \A e \in outbox' : e.event_name \in {"user_added", "user_updated", "user_deleted"}
      ]_vars

(* A create and the delete of the same person have committed, each with its
   event. *)
C16_Witness ==
    /\ Len(mutations) = 2
    /\ \E e \in outbox : e.event_name = "user_added"
    /\ \E e \in outbox : e.event_name = "user_deleted"
    /\ \E id \in Ids : mutations[2] = [op |-> "delete", id |-> id, post |-> None]

----------------------------------------------------------------------------
(* Properties of the service with a relay at work, checked under
   SpecService. *)

(* The columns of an Outbox row that are written once, by the insert. *)
Content(e) ==
    [id |-> e.id, topic |-> e.topic, event_name |-> e.event_name,
     payload |-> e.payload, created_date_time |-> e.created_date_time]

(* C15. The id, topic, event_name, payload and created_at of a committed
   Outbox row never change: every step, clear_event and errored_event among
   them, leaves each row in the table, alone under its id, with those five
   columns as they were; and a step of a coordinator call leaves every
   committed row as a whole as it was. *)
C15_EventContentImmutable ==
    [][/\ \A e \in outbox :
             /\ \E f \in outbox' : Content(f) = Content(e)
             /\ Cardinality({f \in outbox' : f.id = e.id}) = 1
       /\ (\E p \in Tasks : Steps(p)) => outbox \subseteq outbox'
      ]_vars

(* The event of a create has been marked published at a later time than it
   was written, and the event of the update that followed has been marked
   errored. *)
C15_Witness ==
    /\ Cardinality(outbox) = 2
    /\ \E e \in outbox :
          /\ e.event_name = "user_added"
          /\ e.status = "Published"
          /\ e.created_date_time = 0
          /\ e.published_date_time = Some(1)
    /\ \E e \in outbox :
          /\ e.event_name = "user_updated"
          /\ e.status = "Error"
          /\ e.error_count = 1

----------------------------------------------------------------------------
(* Properties of list_users, checked under SpecList. *)

DistinctTimes ==
    \A r1, r2 \in Rows(person) : r1 # r2 => r1.created_date_time # r2.created_date_time

Elems(s) == {s[i] : i \in 1..Len(s)}

(* C17. On a table whose rows have distinct creation times, for every N >= 0
   the pages list(0, N) and list(N, N) share no row and, one after the
   other, are list(0, 2N), which holds the 2N newest rows, or all rows when
   there are fewer, newest first. For a negative N all three calls fail. *)
C17_Pagination ==
    DistinctTimes =>
        \A n \in PageSizes :
            \A a \in ListStmt(person, 0, n), b \in ListStmt(person, n, n),
               c \in ListStmt(person, 0, 2 * n) :
                IF n < 0
                THEN a.kind = "Err" /\ b.kind = "Err" /\ c.kind = "Err"
                ELSE /\ a.kind = "Ok" /\ b.kind = "Ok" /\ c.kind = "Ok"
                     /\ Elems(a.value) \cap Elems(b.value) = {}
                     /\ a.value \o b.value = c.value
                     /\ Len(c.value) = Min(2 * n, Cardinality(Rows(person)))
                     /\ Elems(c.value) \subseteq Rows(person)
                     /\ \A i, j \in 1..Len(c.value) :
                           i < j => c.value[i].created_date_time > c.value[j].created_date_time
                     /\ \A r \in Rows(person) \ Elems(c.value) :
                           \A i \in 1..Len(c.value) :
                               r.created_date_time < c.value[i].created_date_time

(* Three persons created at three times: the second page of one row is the
   person that is neither the newest nor the oldest. *)
C17_Witness ==
    /\ Cardinality(Rows(person)) = 3
    /\ DistinctTimes
    /\ listed.offset = 1
    /\ listed.limit = 1
    /\ listed.result.kind = "Ok"
    /\ Len(listed.result.value) = 1
    /\ \E r \in Rows(person) : r.created_date_time > listed.result.value[1].created_date_time
    /\ \E r \in Rows(person) : r.created_date_time < listed.result.value[1].created_date_time

----------------------------------------------------------------------------
(* Properties of the service with a relay polling, checked under SpecFetch. *)

(* The ids of the rows open transactions have written and not committed. *)
PrivateIds == UNION {{e.id : e \in tx[p].events} : p \in Tasks}

(* C21. No dirty reads: a get_pending_messages made at any point of a running
   coordinator call returns committed rows only, none of them a row an open
   transaction has written; so every row a relay has been given is in the
   committed table, whatever became of the transactions open at the time,
   rolled back ones included. *)
C21_NoDirtyReads ==
    [][\A r \in Relays :
          /\ fetched'[r] # fetched[r]
                => /\ fetched'[r] \subseteq {e.id : e \in outbox}
                   /\ fetched'[r] \cap PrivateIds = {}
          /\ fetched'[r] \subseteq {e.id : e \in outbox'}
       ]_vars

(* The relay holds the one committed event while a second call, its own
   event written, has ended in a rollback or a failed commit. *)
C21_Witness ==
    /\ Cardinality(outbox) = 1
    /\ fetched[1] = {e.id : e \in outbox}
    /\ pc[1] = "done"
    /\ result[1].kind = "Err"
    /\ result[1].error \in {"commit", "rollback"}
    /\ Len(mutations) = 1

----------------------------------------------------------------------------
(* Properties of two concurrent calls, checked under SpecPair. *)

(* What call c, begun at t, writes when it runs alone on the committed table:
   a failed call and a delete of nothing write nothing. *)
RunAlone(table, c, t) ==
    CASE c.op = "create" ->
            IF table[c.id] # None THEN None
            ELSE Some([kind |-> "put", id |-> c.id, row |-> CreateStmtRow(c.user, t)])
      [] c.op = "update" ->
            IF table[c.id] = None THEN None
            ELSE Some([kind |-> "put", id |-> c.id,
                       row |-> UpdateStmtRow(table[c.id][1], c.user, t)])
      [] c.op = "delete" ->
            IF table[c.id] = None THEN None
            ELSE Some([kind |-> "del", id |-> c.id, row |-> table[c.id][1]])

(* Whether call c, begun at t, fails when it runs alone on the table. *)
FailsAlone(table, c) ==
    \/ c.op = "create" /\ table[c.id] # None
    \/ c.op = "update" /\ table[c.id] = None

(* C22. Two concurrent calls are serializable. A call that wrote a row and
   commits leaves the two tables as the same call run alone on the tables as
   committed at that moment would, with one new event; a call that wrote
   nothing (a delete of no row) or ends in an error leaves them as they were,
   as it would alone at the moment of its statement. So two concurrent
   creates of one id commit one row and one event. A call on an id no open
   transaction works on is not held up, and no call changes the row of
   another id. *)
C22_Serializable ==
    [][\A p \in Tasks :
          /\ pc[p] = "commit" /\ pc'[p] = "done" /\ result'[p].kind = "Ok"
                => /\ tx[p].write # None
                         => /\ ~FailsAlone(person, call[p])
                            /\ tx[p].write = RunAlone(person, call[p], tx[p].start)
                   /\ tx[p].write = None => call[p].op = "delete" /\ person' = person
                   /\ person' = ApplyWrite(person, tx[p].write)
                   /\ outbox \subseteq outbox'
                   /\ Cardinality(outbox' \ outbox) = IF tx[p].write = None THEN 0 ELSE 1
                   /\ \A i \in Ids \ {call[p].id} : person'[i] = person[i]
          /\ pc[p] # "done" /\ pc'[p] = "done" /\ result'[p].kind = "Err"
                => person' = person /\ outbox' = outbox
          /\ pc[p] = "entity" /\ (\A q \in Tasks \ {p} : tx[q].open => call[q].id # call[p].id)
                => ENABLED (PersonDbCreate(p) \/ PersonDbUpdate(p) \/ PersonDbDelete(p))
       ]_vars

(* Two creates of one id on the empty table after both have ended: one row
   and one event are committed, and one of the two got Ok. *)
C22_Witness ==
    /\ \A p \in Tasks : pc[p] = "done" /\ call[p].op = "create" /\ call[p].id = 2
    /\ result[1].kind = "Ok"
    /\ result[2] = Err("entity")
    /\ \A i \in 1..Len(mutations) : mutations[i].id = 2 => i = Len(mutations)
    /\ Cardinality({e \in outbox : e.event_name = "user_added"
                                    /\ e.payload = Some(SerializePerson(person[2][1]))}) = 1
    /\ person[2] # None

----------------------------------------------------------------------------
(* Properties of several relays on one table, checked under SpecRelay. *)

(* C23. get_pending_messages takes no claim on what it returns: a fetch
   leaves the Outbox table as it was, and its result is a result of the
   pending query on the whole table, whatever other relays hold; so a relay
   with nothing in hand can be given any pending event another relay holds. *)
C23_NoLease ==
    [][\A r \in Relays :
          /\ fetched[r] = {} /\ fetched'[r] # {}
                => /\ outbox' = outbox
                   /\ \E rows \in GetPendingStmt(outbox) : fetched'[r] = {e.id : e \in rows}
          /\ \A q \in Relays \ {r} : \A e \in outbox :
                (fetched[r] = {} /\ e.id \in fetched[q] /\ Eligible(e))
                   => ENABLED (RelayPoll(r) /\ e.id \in fetched'[r])
       ]_vars

(* Both relays hold the same event, which is as it was inserted. *)
C23_Witness ==
    \E e \in outbox :
        /\ e.id \in fetched[1] \cap fetched[2]
        /\ e.published_date_time = None
        /\ e.error_count = 0
        /\ e.status = "Unpublished"

----------------------------------------------------------------------------
(* Properties of the create_user handler, checked under SpecHandler. *)

(* The entity mutations the handler's request has committed. *)
CommittedByRequest ==
    {i \in 1..Len(mutations) : handler.user # None /\ mutations[i].id = handler.user[1].id}

(* C25, as the spec words it: one invocation of the handler attempts the
   create mutation exactly once, so that a request whose mutation committed
   is answered Created, not with an error. *)
C25_Original ==
    (handler.pc = "responded" /\ CommittedByRequest # {})
        => handler.response[1].status = "Created"

----------------------------------------------------------------------------
(* Leaving the pending set, checked under SpecOutbox. *)

(* C26. Leaving the pending set is permanent: no clear_event or
   errored_event makes an event that is not eligible eligible again, a
   clear_event on an abandoned event, which resets its error_count to 0,
   included; a published_at that is set is never null again, and no event
   leaves the table. *)
C26_LeavingIsPermanent ==
    [][\A e \in outbox \ outbox' :
          /\ \E f \in outbox' \ outbox : f.id = e.id
          /\ \A f \in outbox' \ outbox :
                f.id = e.id
                   => /\ ~Eligible(e) => ~Eligible(f)
                      /\ e.published_date_time # None => f.published_date_time # None
                      /\ (e.error_count >= ErrorCeiling /\ f.error_count < ErrorCeiling)
                            => f.error_count = 0 /\ f.published_date_time # None
       ]_vars

(* An event was abandoned at the ceiling and clear_event was then called for
   it: its count is back at 0, it is published, and it is not pending. *)
C26_Witness ==
    \E e \in outbox :
        /\ acks = MaxAcks
        /\ Cardinality(outbox) = 1
        /\ e.error_count = 0
        /\ e.published_date_time # None
        /\ ~Eligible(e)
        /\ e \notin Pending(outbox)

====
